---- MODULE Spec2Model ----
(***************************************************************************)
(* A model of src/src/decision_tree.py: the DTClassifier decision tree     *)
(* (construction, fit / build_tree, predict / predict_value) together with *)
(* the numpy conversions the code relies on.                               *)
(*                                                                         *)
(* Values.  Every Python or numpy scalar is a record [t, v]: t is the      *)
(* runtime type and v a sequence of naturals (one number for int and       *)
(* float, the code points for a string, empty for None).  Floats are the   *)
(* whole numbers n.0; real arithmetic on impurities is exact rational      *)
(* arithmetic (log2 through a fixed-point table), so IEEE rounding of the  *)
(* gains is not modelled.                                                  *)
(***************************************************************************)
EXTENDS Integers, Sequences, FiniteSets, TLC

VARIABLES
    cfg,     \* the DTClassifier object's hyperparameters; cfg.made says whether an object exists
    root,    \* self.root: [set |-> FALSE] is None, else the tree as a set of nodes
    pc,      \* position of the caller: "new", "idle", "building", "returned"
    call,    \* the call in progress or just ended: operation, arguments (as passed)
    build,   \* build_tree's recursion while fit runs: pending frames, nodes made
    out      \* outcome of the call that just ended: status, error, value

vars == <<cfg, root, pc, call, build, out>>

----------------------------------------------------------------------------
(* Bounds of the model *)

\* rows of a dataset handed to fit in the single-fit specification
MaxRows == 3
\* rows of a matrix handed to fit or predict in the lifecycle specification
MaxCallRows == 2

----------------------------------------------------------------------------
(* Python and numpy values *)

PyInt(n) == [t |-> "int", v |-> <<n>>]
PyFloat(n) == [t |-> "float", v |-> <<n>>]
PyStr(s) == [t |-> "str", v |-> s]
None == [t |-> "None", v |-> <<>>]
NpInt(n) == [t |-> "i8", v |-> <<n>>]
NpFloat(n) == [t |-> "f8", v |-> <<n>>]
NpStr(s) == [t |-> "U", v |-> s]

\* the characters of str(n) for a natural n, as code points
RECURSIVE Digits(_)
Digits(n) == IF n < 10 THEN <<48 + n>> ELSE Digits(n \div 10) \o <<48 + (n % 10)>>

\* str(n.0)
FloatRepr(n) == Digits(n) \o <<46, 48>>

\* the dtype np.array gives a nested list of these cells
ResultDType(cells) ==
    IF \E c \in cells : c.t = "str" THEN "U"
    ELSE IF \E c \in cells : c.t = "float" THEN "f8"
    ELSE "i8"

\* one cell converted to the array's dtype
AsType(c, dt) ==
    CASE dt = "i8" -> NpInt(c.v[1])
      [] dt = "f8" -> NpFloat(c.v[1])
      [] OTHER -> IF c.t = "str" THEN NpStr(c.v)
                  ELSE IF c.t = "float" THEN NpStr(FloatRepr(c.v[1]))
                  ELSE NpStr(Digits(c.v[1]))

\* the cells of a nested list
CellsOf(M) == UNION {{M[i][j] : j \in 1..Len(M[i])} : i \in 1..Len(M)}

\* np.array(X) for a list of equally long rows
NpMatrix(M) ==
    LET dt == ResultDType(CellsOf(M))
    IN [i \in 1..Len(M) |-> [j \in 1..Len(M[i]) |-> AsType(M[i][j], dt)]]

\* np.array(y) for a list of labels
NpVector(ys) ==
    LET dt == ResultDType({ys[i] : i \in 1..Len(ys)})
    IN [i \in 1..Len(ys) |-> AsType(ys[i], dt)]

\* isinstance(x, int) or isinstance(x, float): np.float64 subclasses float,
\* np.int64 and np.str_ subclass neither int nor float
IsNumber(x) == x.t \in {"int", "float", "f8"}

IsNumeric(x) == x.t \in {"int", "float", "i8", "f8"}

\* lexicographic order of two code-point sequences
RECURSIVE SeqLess(_, _)
SeqLess(a, b) ==
    IF Len(b) = 0 THEN FALSE
    ELSE IF Len(a) = 0 THEN TRUE
    ELSE IF a[1] # b[1] THEN a[1] < b[1]
    ELSE SeqLess(Tail(a), Tail(b))

\* a < b for two elements of one array (one dtype)
Less(a, b) == IF IsNumeric(a) /\ IsNumeric(b) THEN a.v[1] < b.v[1] ELSE SeqLess(a.v, b.v)

\* a == b
Eq(a, b) == IF IsNumeric(a) /\ IsNumeric(b) THEN a.v[1] = b.v[1] ELSE a.t = b.t /\ a.v = b.v

\* a >= b is defined between numbers only; between a number and a string it raises
GeDefined(a, b) == IsNumeric(a) /\ IsNumeric(b)
Ge(a, b) == a.v[1] >= b.v[1]

\* the elements of set S in ascending order
RECURSIVE Sorted(_)
Sorted(S) ==
    IF S = {} THEN <<>>
    ELSE LET m == CHOOSE x \in S : \A z \in S : ~Less(z, x)
         IN <<m>> \o Sorted(S \ {m})

\* np.unique(a): the sorted distinct elements
Unique(a) == Sorted({a[i] : i \in 1..Len(a)})

\* np.unique(a, return_counts=True)[1]
Counts(a) ==
    LET u == Unique(a)
    IN [k \in 1..Len(u) |-> Cardinality({i \in 1..Len(a) : a[i] = u[k]})]

----------------------------------------------------------------------------
(* Exact rational numbers [n, d] with d > 0, in lowest terms *)

RECURSIVE GCD(_, _)
GCD(a, b) == IF b = 0 THEN a ELSE GCD(b, a % b)

Abs(a) == IF a < 0 THEN -a ELSE a

Rat(n, d) ==
    LET g == GCD(Abs(n), Abs(d))
        s == IF d < 0 THEN -1 ELSE 1
    IN [n |-> s * (n \div g), d |-> s * (d \div g)]

LCM(a, b) == (a \div GCD(a, b)) * b

RatSub(a, b) ==
    LET l == LCM(a.d, b.d)
    IN Rat(a.n * (l \div a.d) - b.n * (l \div b.d), l)

RatAdd(a, b) ==
    LET l == LCM(a.d, b.d)
    IN Rat(a.n * (l \div a.d) + b.n * (l \div b.d), l)

RatMulInt(a, k) == LET g == GCD(Abs(k), a.d) IN Rat(a.n * (k \div g), a.d \div g)

RatDivInt(a, k) == LET g == GCD(Abs(a.n), k) IN Rat(a.n \div g, a.d * (k \div g))

\* a > b
RatGT(a, b) ==
    LET l == LCM(a.d, b.d)
    IN a.n * (l \div a.d) > b.n * (l \div b.d)

Zero == Rat(0, 1)

RECURSIVE SumSeq(_)
SumSeq(s) == IF Len(s) = 0 THEN 0 ELSE s[1] + SumSeq(Tail(s))

----------------------------------------------------------------------------
(* Impurity metrics *)

\* np.log2 in fixed point: Log2Table[k] is log2(k) * LogScale, rounded
LogScale == 1000000
Log2Table == <<0, 1000000, 1584963, 2000000, 2321928, 2584963, 2807355, 3000000>>

\* -sum(p * log2(p)) with p = counts / sum(counts)
calculate_entropy(y) ==
    LET counts == Counts(y)
        total == SumSeq(counts)
    IN IF total = 0 THEN Zero
       ELSE Rat(SumSeq([k \in 1..Len(counts) |->
                           counts[k] * (Log2Table[total] - Log2Table[counts[k]])]),
                total * LogScale)

\* 1 - sum(p ** 2)
calculate_gini(y) ==
    LET counts == Counts(y)
        total == SumSeq(counts)
    IN IF total = 0 THEN Rat(1, 1)
       ELSE Rat(total * total - SumSeq([k \in 1..Len(counts) |-> counts[k] * counts[k]]),
                total * total)

\* the names impurity_function knows
ImpurityNames == {"gini", "entropy"}

\* self.impurity(y): the function the constructor looked up by name
Impurity(name, y) == IF name = "gini" THEN calculate_gini(y) ELSE calculate_entropy(y)

\* parent impurity minus the size-weighted impurity of the two halves
calculate_impurity_gain(name, y, y1, y2) ==
    LET size_right == Len(y1)
        size_left == Len(y2)
    IN RatSub(Impurity(name, y),
              RatDivInt(RatAdd(RatMulInt(Impurity(name, y1), size_right),
                               RatMulInt(Impurity(name, y2), size_left)),
                        size_left + size_right))

----------------------------------------------------------------------------
(* Partition and leaf value *)

\* the elements of s at the positions where mask is b
RECURSIVE Take(_, _, _)
Take(s, mask, b) ==
    IF Len(mask) = 0 THEN <<>>
    ELSE (IF mask[1] = b THEN <<s[1]>> ELSE <<>>) \o Take(Tail(s), Tail(mask), b)

\* true_indices: X[:, feature_id] >= threshold for a threshold that passes the
\* isinstance test, X[:, feature_id] == threshold otherwise
TrueIndices(X, feature_id, threshold) ==
    [i \in 1..Len(X) |->
        IF IsNumber(threshold) THEN Ge(X[i][feature_id + 1], threshold)
        ELSE Eq(X[i][feature_id + 1], threshold)]

\* a boolean index must be as long as the array it indexes
IndexFits(X, y) == Len(y) = Len(X)

divide_on_feature(X, y, feature_id, threshold) ==
    LET true_indices == TrueIndices(X, feature_id, threshold)
    IN [X1 |-> Take(X, true_indices, TRUE), y1 |-> Take(y, true_indices, TRUE),
        X2 |-> Take(X, true_indices, FALSE), y2 |-> Take(y, true_indices, FALSE)]

\* np.argmax: the first position holding the largest element
ArgMax(c) == CHOOSE k \in 1..Len(c) :
                 /\ \A j \in 1..Len(c) : c[j] <= c[k]
                 /\ \A j \in 1..(k - 1) : c[j] < c[k]

majority_vote(y) == Unique(y)[ArgMax(Counts(y))]

----------------------------------------------------------------------------
(* Split search: the loops of build_tree *)

\* s[1] \o s[2] \o ...
RECURSIVE Flatten(_)
Flatten(s) == IF Len(s) = 0 THEN <<>> ELSE s[1] \o Flatten(Tail(s))

Column(X, feature_id) == [i \in 1..Len(X) |-> X[i][feature_id + 1]]

NrFeatures(X) == IF Len(X) = 0 THEN 0 ELSE Len(X[1])

\* the (feature_id, threshold) pairs in the order the two nested loops visit them
Candidates(X) ==
    Flatten([f \in 1..NrFeatures(X) |->
                LET unique_values == Unique(Column(X, f - 1))
                IN [k \in 1..Len(unique_values) |->
                       [feature_id |-> f - 1, threshold |-> unique_values[k]]]])

\* the locals of build_tree before the loops: largest_impurity_gain = 0, best_* unbound
NoSplit ==
    [found |-> FALSE, gain |-> Zero, feature_id |-> None, threshold |-> None,
     X1 |-> <<>>, y1 |-> <<>>, X2 |-> <<>>, y2 |-> <<>>]

ImprovesOrTies(impurity_gain, largest_impurity_gain) == ~RatGT(largest_impurity_gain, impurity_gain)

\* impurity_gain > largest_impurity_gain
Improves(impurity_gain, largest_impurity_gain) == RatGT(impurity_gain, largest_impurity_gain)

\* both halves must hold rows
BothNonEmpty(d) == Len(d.X1) > 0 /\ Len(d.X2) > 0

\* the body of the inner loop for one candidate
TryCandidate(name, X, y, best, cand) ==
    LET d == divide_on_feature(X, y, cand.feature_id, cand.threshold)
        impurity_gain == calculate_impurity_gain(name, y, d.y1, d.y2)
    IN IF BothNonEmpty(d) /\ Improves(impurity_gain, best.gain)
       THEN [found |-> TRUE, gain |-> impurity_gain,
             feature_id |-> PyInt(cand.feature_id), threshold |-> cand.threshold,
             X1 |-> d.X1, y1 |-> d.y1, X2 |-> d.X2, y2 |-> d.y2]
       ELSE best

RECURSIVE SearchFrom(_, _, _, _, _)
SearchFrom(name, X, y, cands, best) ==
    IF Len(cands) = 0 THEN best
    ELSE SearchFrom(name, X, y, Tail(cands), TryCandidate(name, X, y, best, cands[1]))

SplitSearch(name, X, y) == SearchFrom(name, X, y, Candidates(X), NoSplit)

----------------------------------------------------------------------------
(* build_tree, one invocation at a time *)

\* max_depth is a number or float("inf")
Depth(n) == [inf |-> FALSE, v |-> n]
Unbounded == [inf |-> TRUE, v |-> 0]
DepthLEOffByOne(current_depth, max_depth) == max_depth.inf \/ current_depth <= max_depth.v + 1
DepthLE(current_depth, max_depth) == max_depth.inf \/ current_depth <= max_depth.v

\* nr_samples >= self.min_samples_split and current_depth <= self.max_depth
SearchAllowed(c, nr_samples, current_depth) ==
    nr_samples >= c.min_samples_split /\ DepthLE(current_depth, c.max_depth)

\* largest_impurity_gain > self.min_impurity
Justified(c, largest_impurity_gain) == RatGT(largest_impurity_gain, c.min_impurity)

ChildDepthSame(current_depth) == current_depth

\* the depth handed to the two recursive calls
ChildDepth(current_depth) == current_depth + 1

\* DecisionNode(...): path is the node's place in the tree ("T" true_branch, "F" false_branch)
DecisionNode(path, feature_id, threshold, value) ==
    [path |-> path, feature_id |-> feature_id, threshold |-> threshold, value |-> value]

\* a pending invocation build_tree(X, y, current_depth); idx (the rows of the fitted
\* matrix that X holds) is kept for the record only
Frame(path, X, y, idx, depth) == [path |-> path, X |-> X, y |-> y, idx |-> idx, depth |-> depth]

NoSearch == [ran |-> FALSE, path |-> <<>>, X |-> <<>>, y |-> <<>>, best |-> NoSplit]

\* fit up to its call build_tree(X, y): both arguments go through np.array; args
\* (the lists as passed) is kept for the record only
StartBuild(Xin, yin) ==
    [stack |-> <<Frame(<<>>, NpMatrix(Xin), NpVector(yin), [i \in 1..Len(Xin) |-> i], 0)>>,
     nodes |-> {}, reached |-> {}, search |-> NoSearch, err |-> "",
     args |-> [X |-> Xin, y |-> yin]]

Raise(b, e) == [b EXCEPT !.stack = <<>>, !.err = e]

\* One invocation of build_tree, up to its recursive calls: the frame on top of the
\* stack is taken; it raises, or becomes a leaf, or becomes a split whose two
\* recursive calls (true branch first) are pushed.
BuildStepOn(c, b) ==
    LET fr == b.stack[1]
        X == fr.X
        y == fr.y
        allowed == SearchAllowed(c, Len(X), fr.depth)
        best == IF allowed THEN SplitSearch(c.impurity, X, y) ELSE NoSplit
        seen == b.reached \cup {[path |-> fr.path, idx |-> fr.idx]}
        mask == TrueIndices(X, best.feature_id.v[1], best.threshold)
    IN IF Len(X) = 0 THEN Raise(b, "ValueError")
       ELSE IF allowed /\ Len(Candidates(X)) > 0 /\ ~IndexFits(X, y) THEN Raise(b, "IndexError")
       ELSE IF Justified(c, best.gain)
       THEN IF ~best.found THEN Raise(b, "UnboundLocalError")
            ELSE [b EXCEPT
                    !.stack = <<Frame(fr.path \o <<"T">>, best.X1, best.y1,
                                      Take(fr.idx, mask, TRUE), ChildDepth(fr.depth)),
                                Frame(fr.path \o <<"F">>, best.X2, best.y2,
                                      Take(fr.idx, mask, FALSE), ChildDepth(fr.depth))>>
                              \o Tail(b.stack),
                    !.nodes = @ \cup {DecisionNode(fr.path, best.feature_id, best.threshold, None)},
                    !.reached = seen,
                    !.search = [ran |-> allowed, path |-> fr.path, X |-> X, y |-> y, best |-> best]]
       ELSE IF Len(y) = 0 THEN Raise(b, "ValueError")
       ELSE [b EXCEPT
               !.stack = Tail(b.stack),
               !.nodes = @ \cup {DecisionNode(fr.path, None, None, majority_vote(y))},
               !.reached = seen,
               !.search = [ran |-> allowed, path |-> fr.path, X |-> X, y |-> y, best |-> best]]

----------------------------------------------------------------------------
(* Prediction *)

NoRoot == [set |-> FALSE, nodes |-> {}]
Tree(nodes) == [set |-> TRUE, nodes |-> nodes]

NodeAt(nodes, path) == CHOOSE n \in nodes : n.path = path

IsLeaf(node) == node.value # None

\* which branch predict_value follows at a split: "T", "F", or the error it raises
Branch(node, x) ==
    IF node.feature_id.v[1] + 1 > Len(x) THEN "IndexError"
    ELSE LET feature_value == x[node.feature_id.v[1] + 1]
         IN IF IsNumber(feature_value)
            THEN IF ~GeDefined(feature_value, node.threshold) THEN "TypeError"
                 ELSE IF Ge(feature_value, node.threshold) THEN "T" ELSE "F"
            ELSE IF Eq(feature_value, node.threshold) THEN "T" ELSE "F"

\* predict_value(x, tree) for the subtree at path; tree None stands for self.root
RECURSIVE predict_value(_, _, _)
predict_value(r, x, path) ==
    IF ~r.set THEN [err |-> "AttributeError", value |-> None]
    ELSE LET tree == NodeAt(r.nodes, path)
         IN IF IsLeaf(tree) THEN [err |-> "", value |-> tree.value]
            ELSE LET branch == Branch(tree, x)
                 IN IF branch \in {"T", "F"} THEN predict_value(r, x, path \o <<branch>>)
                    ELSE [err |-> branch, value |-> None]

\* the list comprehension of predict over the rows of X: the first row that raises ends it
PredictRows(r, X) ==
    LET each == [i \in 1..Len(X) |-> predict_value(r, X[i], <<>>)]
        bad == {i \in 1..Len(X) : each[i].err # ""}
    IN IF bad = {} THEN [status |-> "ok", err |-> "", value |-> [i \in 1..Len(X) |-> each[i].value]]
       ELSE [status |-> "error", err |-> each[CHOOSE i \in bad : \A j \in bad : i <= j].err,
             value |-> <<>>]

predict_untrained_empty(r, Xin) ==
    IF r.set THEN PredictRows(r, NpMatrix(Xin)) ELSE [status |-> "ok", err |-> "", value |-> <<>>]

\* predict(X)
predict(r, Xin) == PredictRows(r, NpMatrix(Xin))

----------------------------------------------------------------------------
(* Hyperparameters and inputs the model draws from *)

Impurities == {"entropy", "gini", "chi2"}
MinSamplesSplits == {0, 2, 3}
MinImpurities == {Rat(-1, 1), Zero, Rat(1, 2)}
MaxDepths == {Depth(-1), Depth(0), Unbounded}

NoConfig ==
    [made |-> FALSE, impurity |-> "", min_samples_split |-> 0, min_impurity |-> Zero,
     max_depth |-> Unbounded]

Config(impurity, min_samples_split, min_impurity, max_depth) ==
    [made |-> TRUE, impurity |-> impurity, min_samples_split |-> min_samples_split,
     min_impurity |-> min_impurity, max_depth |-> max_depth]

\* the objects the constructor can return
Configs ==
    {Config(i, s, m, d) : i \in ImpurityNames, s \in MinSamplesSplits,
                          m \in MinImpurities, d \in MaxDepths}

\* cells of a call's matrix: an int, a float, a string
MixedCells == {PyInt(0), PyFloat(1), PyStr(<<65>>)}
\* cells of a one-column training matrix: two ints and a float, so that a column
\* is either of two integers or of up to three floats
NumberCells == {PyInt(0), PyInt(1), PyFloat(2)}
\* cells of a two-column training matrix: all 0, or strings
PairCells == {PyInt(0), PyStr(<<65>>)}
Labels == {PyInt(0), PyInt(1)}

\* the lists of n rows of nf cells each, for n in lo..hi
Matrices(lo, hi, nf, cells) == UNION {[1..n -> [1..nf -> cells]] : n \in lo..hi}
LabelLists(lo, hi) == UNION {[1..n -> Labels] : n \in lo..hi}

\* well-formed training sets: as many labels as rows, at least one row
BuildDatasets ==
    {d \in [X : Matrices(1, MaxRows, 1, NumberCells) \cup Matrices(1, MaxRows - 1, 2, PairCells),
            y : LabelLists(1, MaxRows)] : Len(d.X) = Len(d.y)}

\* what the lifecycle hands to fit: any row count, any label count
FitInputs ==
    [X : Matrices(0, MaxCallRows, 1, MixedCells), y : LabelLists(0, MaxCallRows)]

\* what is handed to predict: rows of one feature, or of none
PredictInputs ==
    Matrices(0, MaxCallRows, 1, MixedCells) \cup Matrices(1, MaxCallRows, 0, MixedCells)

\* one session: a well-formed numeric training set, then batches of its own rows
SessionCells == {PyInt(0), PyFloat(1), PyInt(2)}
TrainInputs ==
    {d \in [X : Matrices(1, MaxRows, 1, SessionCells), y : LabelLists(1, MaxRows)] :
        Len(d.X) = Len(d.y)}
\* the lists of 1..MaxCallRows rows taken from the list M
RowBatches(M) == UNION {[1..n -> {M[i] : i \in 1..Len(M)}] : n \in 1..MaxCallRows}

----------------------------------------------------------------------------
(* State *)

NoCall == [op |-> "", X |-> <<>>, y |-> <<>>]
NoBuild ==
    [stack |-> <<>>, nodes |-> {}, reached |-> {}, search |-> NoSearch, err |-> "",
     args |-> [X |-> <<>>, y |-> <<>>]]
NoOut == [status |-> "", err |-> "", value |-> <<>>]
Ok(value) == [status |-> "ok", err |-> "", value |-> value]
Error(e) == [status |-> "error", err |-> e, value |-> <<>>]

StoreRootMerged(old, nodes) == Tree(old.nodes \cup nodes)

\* self.root = self.build_tree(X, y)
StoreRoot(old, nodes) == Tree(nodes)

(* Lifecycle: nothing is constructed yet *)
Init ==
    /\ cfg = NoConfig
    /\ root = NoRoot
    /\ pc = "new"
    /\ call = NoCall
    /\ build = NoBuild
    /\ out = NoOut

\* DTClassifier(impurity, min_samples_split, min_impurity, max_depth): the lookup of
\* the impurity name raises KeyError; nothing else is examined
Construct ==
    /\ pc = "new"
    /\ \E i \in Impurities, s \in MinSamplesSplits, m \in MinImpurities, d \in MaxDepths :
         /\ call' = [op |-> "init", X |-> <<>>, y |-> <<>>]
         /\ IF i \in ImpurityNames
            THEN /\ cfg' = Config(i, s, m, d)
                 /\ out' = Ok(<<>>)
                 /\ pc' = "returned"
            ELSE /\ cfg' = cfg
                 /\ out' = Error("KeyError")
                 /\ pc' = "failed"
    /\ UNCHANGED <<root, build>>

\* fit(X, y) is entered with an argument pair drawn from inputs
FitCallFrom(inputs) ==
    /\ pc = "idle"
    /\ \E d \in inputs :
         /\ call' = [op |-> "fit", X |-> d.X, y |-> d.y]
         /\ build' = StartBuild(d.X, d.y)
    /\ pc' = "building"
    /\ UNCHANGED <<cfg, root, out>>

FitCall == FitCallFrom(FitInputs)

\* one invocation of build_tree runs
BuildStep ==
    /\ pc = "building"
    /\ Len(build.stack) > 0
    /\ build' = BuildStepOn(cfg, build)
    /\ UNCHANGED <<cfg, root, pc, call, out>>

\* build_tree has returned or raised: self.root is assigned only in the first case
FitReturn ==
    /\ pc = "building"
    /\ Len(build.stack) = 0
    /\ IF build.err = ""
       THEN root' = StoreRoot(root, build.nodes) /\ out' = Ok(<<>>)
       ELSE root' = root /\ out' = Error(build.err)
    /\ pc' = "returned"
    /\ UNCHANGED <<cfg, call, build>>

\* predict(X) for a matrix drawn from inputs
PredictFrom(inputs) ==
    /\ pc = "idle"
    /\ \E X \in inputs :
         /\ call' = [op |-> "predict", X |-> X, y |-> <<>>]
         /\ out' = predict(root, X)
    /\ pc' = "returned"
    /\ UNCHANGED <<cfg, root, build>>

Predict == PredictFrom(PredictInputs)

\* the caller takes the result; the record of the call is dropped
Return ==
    /\ pc = "returned"
    /\ pc' = "idle"
    /\ call' = NoCall
    /\ build' = NoBuild
    /\ out' = NoOut
    /\ UNCHANGED <<cfg, root>>

Next == Construct \/ FitCall \/ BuildStep \/ FitReturn \/ Predict \/ Return

Spec == Init /\ [][Next]_vars

(* One fit, one build_tree invocation per step *)
InitBuild ==
    /\ cfg \in Configs
    /\ root = NoRoot
    /\ pc = "building"
    /\ \E d \in BuildDatasets :
         /\ call = [op |-> "fit", X |-> d.X, y |-> d.y]
         /\ build = StartBuild(d.X, d.y)
    /\ out = NoOut

NextBuild == BuildStep \/ FitReturn

SpecBuild == InitBuild /\ [][NextBuild]_vars

(* One fit of a model made with the constructor's default hyperparameters
   (min_samples_split=2, min_impurity=1e-7, max_depth=inf), on every training set of
   one or two columns *)
DefaultConfigs == {Config(i, 2, Rat(1, 10000000), Unbounded) : i \in ImpurityNames}

SearchDatasets ==
    {d \in [X : Matrices(1, MaxRows, 1, NumberCells) \cup Matrices(1, MaxRows, 2, PairCells),
            y : LabelLists(1, MaxRows)] : Len(d.X) = Len(d.y)}

InitDefault ==
    /\ cfg \in DefaultConfigs
    /\ root = NoRoot
    /\ pc = "building"
    /\ \E d \in SearchDatasets :
         /\ call = [op |-> "fit", X |-> d.X, y |-> d.y]
         /\ build = StartBuild(d.X, d.y)
    /\ out = NoOut

SpecDefault == InitDefault /\ [][NextBuild]_vars

(* One session: a model made with the default hyperparameters is trained once and
   then asked to classify rows of its training set; the record of the training run
   is kept *)
InitSession ==
    /\ cfg \in DefaultConfigs
    /\ root = NoRoot
    /\ pc = "idle"
    /\ call = NoCall
    /\ build = NoBuild
    /\ out = NoOut

Train == ~root.set /\ FitCallFrom(TrainInputs)

\* predict on rows of the training set, as they were passed to fit
Query == root.set /\ PredictFrom(RowBatches(build.args.X))

Resume ==
    /\ pc = "returned"
    /\ pc' = "idle"
    /\ call' = NoCall
    /\ out' = NoOut
    /\ UNCHANGED <<cfg, root, build>>

NextSession == Train \/ BuildStep \/ FitReturn \/ Query \/ Resume

SpecSession == InitSession /\ [][NextSession]_vars

----------------------------------------------------------------------------
(* Properties *)

\* the ranges the interface table gives the hyperparameters
InRange(c) ==
    /\ c.min_samples_split >= 1
    /\ ~RatGT(Zero, c.min_impurity)
    /\ c.max_depth.inf \/ c.max_depth.v >= 0

FitReturned == pc = "returned" /\ call.op = "fit"
PredictReturned == pc = "returned" /\ call.op = "predict"

\* C1: with max_depth = 0 and the other hyperparameters in range, a fit that
\* returns has stored a single Leaf holding the majority label of all the labels.
C1_MaxDepthZeroRootIsLeaf ==
    (FitReturned /\ out.status = "ok" /\ InRange(cfg) /\ cfg.max_depth = Depth(0))
    => root = Tree({DecisionNode(<<>>, None, None, majority_vote(NpVector(call.y)))})

\* C2: every object the constructor has returned, and so every object that
\* reaches fit, has its hyperparameters in range.
C2_ConfigurationValidated == cfg.made => InRange(cfg)

InvalidFit(c) == c.op = "fit" /\ (Len(c.X) # Len(c.y) \/ Len(c.X) = 0)

\* C3: a fit whose row count differs from its label count, or is zero, ends in
\* an error and leaves self.root as it was.
C3_InvalidFitFails ==
    [][(pc = "building" /\ pc' = "returned" /\ InvalidFit(call) /\ InRange(cfg))
       => (out'.status = "error" /\ root' = root)]_vars

\* C4: predict on a model without a root, for a matrix of at least one row,
\* raises (AttributeError), returns no labels, and the root is still absent.
C4_PredictUntrained ==
    [][(pc = "idle" /\ call'.op = "predict" /\ ~root.set /\ Len(call'.X) >= 1)
       => (out'.status = "error" /\ out'.err = "AttributeError" /\ out'.value = <<>>
           /\ ~root'.set)]_vars

C4_Witness == PredictReturned /\ ~root.set /\ Len(call.X) >= 1 /\ out.status = "error"

\* the candidates of the search just run, stated apart from the loops
SearchPairs ==
    {[feature_id |-> f, threshold |-> build.search.X[i][f + 1]] :
        f \in 0..(NrFeatures(build.search.X) - 1), i \in 1..Len(build.search.X)}
SearchHalves(c) == divide_on_feature(build.search.X, build.search.y, c.feature_id, c.threshold)
SearchUsable == {c \in SearchPairs : Len(SearchHalves(c).X1) > 0 /\ Len(SearchHalves(c).X2) > 0}
SearchGain(c) ==
    calculate_impurity_gain(cfg.impurity, build.search.y, SearchHalves(c).y1, SearchHalves(c).y2)
SearchBefore(c, d) ==
    \/ c.feature_id < d.feature_id
    \/ c.feature_id = d.feature_id /\ Less(c.threshold, d.threshold)
SearchWinner ==
    [feature_id |-> build.search.best.feature_id.v[1], threshold |-> build.search.best.threshold]

\* C5: a search that ran returns the candidate of largest gain among those with
\* two non-empty halves, if that gain is above 0: the first such candidate by
\* feature index, then by value; otherwise it reports nothing and the gain is 0.
C5_BestSplit ==
    build.search.ran =>
        LET usable == SearchUsable
            gain == [c \in usable |-> SearchGain(c)]
            winner == SearchWinner
        IN IF \A c \in usable : ~RatGT(gain[c], Zero)
           THEN ~build.search.best.found /\ build.search.best.gain = Zero
           ELSE /\ build.search.best.found
                /\ winner \in usable
                /\ build.search.best.gain = gain[winner]
                /\ RatGT(build.search.best.gain, Zero)
                /\ build.search.best.X1 = SearchHalves(winner).X1
                /\ build.search.best.X2 = SearchHalves(winner).X2
                /\ \A c \in usable :
                     /\ ~RatGT(gain[c], gain[winner])
                     /\ gain[c] = gain[winner] => (c = winner \/ SearchBefore(winner, c))

\* a search whose largest gain is reached by candidates of two features
C5_Witness ==
    /\ build.search.ran
    /\ build.search.best.found
    /\ \E c \in SearchUsable :
         c.feature_id # SearchWinner.feature_id /\ SearchGain(c) = SearchGain(SearchWinner)

\* C6: the true half of the split made holds the rows whose value is >= the
\* threshold when the column is numeric, == the threshold when it is not, in
\* input order, and the false half holds the other rows.
C6_PartitionRule ==
    (build.search.ran /\ build.search.best.found /\ InRange(cfg)) =>
        LET col == Column(build.search.X, SearchWinner.feature_id)
            numeric == \A i \in 1..Len(col) : col[i].t \in {"i8", "f8"}
            mask == [i \in 1..Len(col) |->
                        IF numeric THEN col[i].v[1] >= SearchWinner.threshold.v[1]
                        ELSE col[i] = SearchWinner.threshold]
        IN /\ build.search.best.X1 = Take(build.search.X, mask, TRUE)
           /\ build.search.best.y1 = Take(build.search.y, mask, TRUE)
           /\ build.search.best.X2 = Take(build.search.X, mask, FALSE)
           /\ build.search.best.y2 = Take(build.search.y, mask, FALSE)

Parent(path) == SubSeq(path, 1, Len(path) - 1)

\* every pending invocation holds at least one row, fewer rows than the
\* invocation that made it, and is one level deeper
C7_Shrinks ==
    /\ \A k \in 1..Len(build.stack) :
         LET fr == build.stack[k]
         IN /\ Len(fr.X) >= 1
            /\ Len(fr.y) = Len(fr.X)
            /\ fr.depth = Len(fr.path)
            /\ fr.path # <<>> =>
                 \E p \in build.reached : p.path = Parent(fr.path) /\ Len(fr.X) < Len(p.idx)
    /\ build.search.best.found =>
         Len(build.search.best.X1) + Len(build.search.best.X2) = Len(build.search.X)

\* what is left to do: a natural number (rows still held by pending
\* invocations, counted twice less one, and the return of fit itself)
RECURSIVE PendingWork(_)
PendingWork(stack) ==
    IF Len(stack) = 0 THEN 0 ELSE 2 * Len(stack[1].X) - 1 + PendingWork(Tail(stack))
Remaining == PendingWork(build.stack) + (IF pc = "building" THEN 1 ELSE 0)

\* C7: build_tree ends on every non-empty dataset: each recursive call is made
\* on a non-empty, strictly smaller subset at depth one greater, every step
\* lowers what is left to do, and nothing is left to do only once fit returned.
C7_Terminates ==
    [][/\ C7_Shrinks /\ C7_Shrinks'
       /\ Remaining' < Remaining
       /\ Remaining' = 0 <=> pc' = "returned"]_vars

\* an invocation two levels down, with max_depth unbounded and min_impurity 0
C7_Witness ==
    /\ cfg.max_depth.inf
    /\ cfg.min_impurity = Zero
    /\ \E k \in 1..Len(build.stack) : build.stack[k].depth = 2

\* C8: with a finite max_depth no Leaf lies deeper than max_depth + 1 and no
\* Split deeper than max_depth.
C8_DepthBound ==
    ~cfg.max_depth.inf =>
        \A n \in build.nodes \cup root.nodes :
            Len(n.path) <= cfg.max_depth.v + (IF IsLeaf(n) THEN 1 ELSE 0)

C8_Witness ==
    /\ FitReturned
    /\ InRange(cfg)
    /\ cfg.max_depth = Depth(0)
    /\ \E n \in root.nodes : IsLeaf(n) /\ Len(n.path) = 1

\* each label is the value of a leaf of r that the row reaches from the top
LabelsFromTree(r, Xin, labels) ==
    LET X == NpMatrix(Xin)
    IN /\ Len(labels) = Len(Xin)
       /\ \A i \in 1..Len(Xin) :
            \E n \in r.nodes :
                /\ IsLeaf(n)
                /\ labels[i] = n.value
                /\ \A k \in 1..Len(n.path) :
                     LET a == NodeAt(r.nodes, SubSeq(n.path, 1, k - 1))
                     IN ~IsLeaf(a) /\ Branch(a, X[i]) = n.path[k]

\* the rows have the feature every split reads, with the type of its threshold
TypesMatch(r, Xin) ==
    LET X == NpMatrix(Xin)
    IN \A i \in 1..Len(X) : \A n \in r.nodes :
         ~IsLeaf(n) => /\ Len(X[i]) > n.feature_id.v[1]
                       /\ X[i][n.feature_id.v[1] + 1].t = n.threshold.t

C9_RootAfterFit == (FitReturned /\ out.status = "ok") => root = Tree(build.nodes)

C9_PredictStep ==
    (pc = "idle" /\ call'.op = "predict") =>
        /\ root' = root
        /\ cfg' = cfg
        /\ root.set =>
             /\ out'.status = "ok" => LabelsFromTree(root, call'.X, out'.value)
             /\ TypesMatch(root, call'.X) => out'.status = "ok"

C9_RootKept == root' # root => (pc = "building" /\ pc' = "returned" /\ out'.status = "ok")

\* C9: the root is the tree of the most recent fit that returned, whole and
\* alone; predict gives one label per row, in order, each the value of the leaf
\* the row reaches in that root, and changes neither root nor hyperparameters.
C9_FitThenPredict == [][C9_RootAfterFit' /\ C9_PredictStep /\ C9_RootKept]_vars

C9_Witness ==
    /\ PredictReturned
    /\ out.status = "ok"
    /\ Len(call.X) = 2
    /\ out.value[1] # out.value[2]

\* the leaf the i-th training row reached while the tree was built
TrainingLeaf(i) ==
    CHOOSE n \in root.nodes :
        IsLeaf(n) /\ \E p \in build.reached :
                        p.path = n.path /\ \E j \in 1..Len(p.idx) : p.idx[j] = i

\* C10: a row of the training set handed to predict gets the value of the leaf
\* it reached in training.
C10_SameRouting ==
    (PredictReturned /\ out.status = "ok" /\ InRange(cfg)) =>
        \A k \in 1..Len(call.X) : \A i \in 1..Len(build.args.X) :
            call.X[k] = build.args.X[i] => out.value[k] = TrainingLeaf(i).value

====
